---- MODULE Spec2Model ----
(***************************************************************************)
(* Model of libsane-rs: the session lifecycle (init_exit.rs), the          *)
(* credential writer (Authorizer), and the device / scan state machine     *)
(* (device.rs, device/scan.rs).                                            *)
(***************************************************************************)
EXTENDS Integers, Sequences, FiniteSets, TLC

(***************************************************************************)
(* Bounds                                                                  *)
(***************************************************************************)
\* number of threads that race on Sane::init
NumThreads == 2

\* longest username / password handed to provide_credentials
MaxStrLen == 3
\* largest credential buffer ([MaybeUninit<u8>; sys::MAX_USERNAME_LEN], whose
\* size comes from the C header)
MaxBufLen == 3

\* most bytes the backend delivers for one frame
MaxFrameBytes == 5
\* largest bytes_per_line / lines the backend reports
MaxBytesPerLine == 2
MaxLines == 2
\* largest buffer a caller hands to read_frame
MaxReadBuf == 2
\* most bytes already in the Vec handed to read_full_frame
MaxVecLen == 1
\* the frames read_full_frame is followed through on its own: most bytes of
\* a frame and largest bytes_per_line (the line estimate reaches 0 only
\* from 4 bytes per line on)
MaxFullFrameBytes == 8
MaxFullBytesPerLine == 4
\* threads that share one Mutex<Sane> anchor, each with its own device
NumUsers == 2
\* the frames written to the decoder: most bytes of a frame, largest
\* bytes_per_line and lines
MaxDecFrameLen == 6
MaxDecBytesPerLine == 4
MaxDecLines == 1

Threads == 1..NumThreads
\* the authorization handlers a caller may pass as Some(handler)
Handlers == {"h1", "h2"}
\* Option::None
None == "None"
AuthArgs == Handlers \cup {None}

\* statuses sane_init may return (error.rs: Good is Ok, anything else Err)
InitStatuses == {"Good", "NoMem", "AccessDenied"}

VARIABLES
    HAS_INSTANCE,   \* static AtomicBool
    auth_handler,   \* STATIC_SYNC_DATA.auth_handler: None or a handler
    pc,             \* per thread: position inside Sane::init / Drop
    authorize,      \* per thread: the argument of the running init call
    result,         \* per thread: the local `result` / outcome of the last init
    sane_state,     \* the C library: "uninit" or "inited"
    exit_calls,     \* sane_exit calls since the last successful sane_init
    issued,         \* underlying library calls issued by the last step
    trampoline,     \* what authorize_callback did in the last step
    username,       \* provide_credentials argument: sequence of code points
    password,       \* provide_credentials argument: sequence of code points
    userBuf,        \* Authorizer.username: cells <<>> (uninit) or <<byte>>
    passBuf,        \* Authorizer.password
    authResult,     \* what provide_credentials returned
    authPc,         \* "call" before provide_credentials, "returned" after
    holder,         \* who owns the device pointer: "none" (not connected),
                    \* "device" (DeviceHandle), "scan" (ScanReader), "frame"
                    \* (a FrameReader borrows the ScanReader), "closed"
    done,           \* ScanReader.done
    started,        \* FrameReader.started
    params,         \* FrameReader.params
    closes,         \* sys_close calls issued for the pointer
    cancelled,      \* cancel() has been called on the current ScanReader
    used,           \* which of map_sane / into_inner the handle went through
    op,             \* the operation the last step belongs to
    ret,            \* what that operation returned ("running" inside a loop)
    dev_state,      \* backend: "idle", "scanning", "eof", "cancelled", "error"
    avail,          \* backend: bytes of the current frame not yet delivered
    frPc,           \* read_full_frame loop: "idle", "known", "unknown"
    buf_left,       \* read_full_frame, lines known: buf.len()
    vec_len0,       \* buf_vec.len() when read_full_frame was called
    vec_len,        \* buf_vec.len()
    vec_cap,        \* buf_vec.capacity()
    try_lines,      \* read_full_frame, lines unknown: the line estimate
    received,       \* bytes sane_read delivered to the running read_full_frame
    vec_tail,       \* buf_vec memory from index vec_len0 on (0 = uninitialised)
    cancels,        \* sys_cancel calls issued through the current ScanReader
    answers,        \* what the backend answered to each call in `issued`
    frame_hist,     \* the current FrameReader: "fresh", "read" (a read was
                    \* attempted), "ended" (a read failed with Eof / Cancelled)
    \* several threads, each with its own device, share one Mutex<Sane> anchor
    mtx_owner,      \* the thread holding the mutex, 0 when it is free
    tpc,            \* per thread: "idle", "locking", "locked", "in_call"
    top,            \* per thread: the operation it runs, "none" when idle
    tcalls,         \* per thread: underlying calls the operation still makes
    tin,            \* per thread: the underlying call it is inside, or "none"
    tres,           \* per thread: "Ok" / "Err", the result of its closure so far
    tholder,        \* per thread: "none", "device", "scan", "frame"
    tdone,          \* per thread: done flag of its ScanReader
    \* one FrameDecoder
    decoder,        \* its fields: state, buffer, spare, width, height,
                    \* black_and_white_as_bytes
    dec_ret         \* result of the last write ("none" before the first)

sessionVars == <<HAS_INSTANCE, auth_handler, pc, authorize, result,
                 sane_state, exit_calls, trampoline>>

authVars == <<username, password, userBuf, passBuf, authResult, authPc>>

scanVars == <<holder, done, started, params, closes, cancelled, used, op,
              ret, dev_state, avail, frPc, buf_left, vec_len0, vec_len,
              vec_cap, try_lines, received, vec_tail, cancels, answers,
              frame_hist>>

mutexVars == <<mtx_owner, tpc, top, tcalls, tin, tres, tholder, tdone>>

decVars == <<decoder, dec_ret>>

vars == <<sessionVars, issued, authVars, scanVars, mutexVars, decVars>>

(***************************************************************************)
(* Session lifecycle: init_exit.rs                                         *)
(***************************************************************************)

\* AtomicBool::compare_exchange(current, new): <<succeeded, value stored>>
compare_exchange_always(flag, current, new) == <<TRUE, new>>

compare_exchange(flag, current, new) ==
    IF flag = current THEN <<TRUE, new>> ELSE <<FALSE, flag>>

\* authorize_callback: looks the handler up in the static slot; an empty slot
\* makes it write NUL into both buffers, otherwise the stored handler runs.
authorize_callback(slot) == IF slot = None THEN "NUL" ELSE slot

SessionInit ==
    /\ HAS_INSTANCE = FALSE
    /\ auth_handler = None
    /\ pc = [t \in Threads |-> "idle"]
    /\ authorize = [t \in Threads |-> None]
    /\ result = [t \in Threads |-> "none"]
    /\ sane_state = "uninit"
    /\ exit_calls = 0
    /\ trampoline = "not_called"

\* a thread calls Sane::init(authorize)
InitCall(t) ==
    /\ pc[t] = "idle"
    /\ \E a \in AuthArgs : authorize' = [authorize EXCEPT ![t] = a]
    /\ pc' = [pc EXCEPT ![t] = "cas"]
    /\ result' = [result EXCEPT ![t] = "none"]
    /\ issued' = <<>>
    /\ trampoline' = "not_called"
    /\ UNCHANGED <<HAS_INSTANCE, auth_handler, sane_state, exit_calls>>

assert_no_instance_skipped(has_instance) == TRUE

\* assert!(!has_instance, ..): whether init goes on
assert_no_instance(has_instance) == ~has_instance

\* HAS_INSTANCE.compare_exchange(false, true).is_err(); assert!(!has_instance)
InitCas(t) ==
    /\ pc[t] = "cas"
    /\ LET cas == compare_exchange(HAS_INSTANCE, FALSE, TRUE) IN
         /\ HAS_INSTANCE' = cas[2]
         /\ IF assert_no_instance(~cas[1])
              THEN /\ pc' = [pc EXCEPT ![t] = "store"]
                   /\ UNCHANGED result
              ELSE /\ pc' = [pc EXCEPT ![t] = "idle"]
                   /\ result' = [result EXCEPT ![t] = "panic"]
    /\ issued' = <<>>
    /\ trampoline' = "not_called"
    /\ UNCHANGED <<auth_handler, authorize, sane_state, exit_calls>>

\* a variant that forgets to store the handler
InitStoreSkipped(t) ==
    /\ pc[t] = "store"
    /\ pc' = [pc EXCEPT ![t] = "sane_init"]
    /\ issued' = <<>>
    /\ trampoline' = "not_called"
    /\ UNCHANGED <<HAS_INSTANCE, auth_handler, authorize, result, sane_state,
                   exit_calls>>

\* if let Some(authorize) = authorize { *ah = Some(authorize) }
InitStore(t) ==
    /\ pc[t] = "store"
    /\ auth_handler' = IF authorize[t] # None THEN authorize[t] ELSE auth_handler
    /\ pc' = [pc EXCEPT ![t] = "sane_init"]
    /\ issued' = <<>>
    /\ trampoline' = "not_called"
    /\ UNCHANGED <<HAS_INSTANCE, authorize, result, sane_state, exit_calls>>

\* sys::sane_init(version, Some(authorize_callback)); the library may call the
\* trampoline while it initialises
InitSaneInit(t) ==
    /\ pc[t] = "sane_init"
    /\ issued' = <<"sane_init">>
    /\ \E cb \in BOOLEAN :
         trampoline' = IF cb THEN authorize_callback(auth_handler)
                             ELSE "not_called"
    /\ \E status \in InitStatuses :
         IF status = "Good"
           THEN /\ result' = [result EXCEPT ![t] = "Ok"]
                /\ pc' = [pc EXCEPT ![t] = "live"]
                /\ sane_state' = "inited"
                /\ exit_calls' = 0
           ELSE /\ result' = [result EXCEPT ![t] = status]
                /\ pc' = [pc EXCEPT ![t] = "rollback"]
                /\ UNCHANGED <<sane_state, exit_calls>>
    /\ UNCHANGED <<HAS_INSTANCE, auth_handler, authorize>>

\* one statement of the error path of init, or of Drop
SessionStatement(t, stmt, next) ==
    /\ CASE stmt = "clear_handler" ->
              /\ auth_handler' = None
              /\ issued' = <<>>
              /\ UNCHANGED <<HAS_INSTANCE, sane_state, exit_calls>>
         [] stmt = "store_false" ->
              /\ HAS_INSTANCE' = FALSE
              /\ issued' = <<>>
              /\ UNCHANGED <<auth_handler, sane_state, exit_calls>>
         [] stmt = "sane_exit" ->
              /\ issued' = <<"sane_exit">>
              /\ sane_state' = "uninit"
              /\ exit_calls' = exit_calls + 1
              /\ UNCHANGED <<HAS_INSTANCE, auth_handler>>
    /\ pc' = [pc EXCEPT ![t] = next]
    /\ trampoline' = "not_called"
    /\ UNCHANGED <<authorize, result>>

\* the statements of a two-statement block, in program order
TwoStatements(t, first, second, at, after) ==
    \/ /\ pc[t] = at
       /\ SessionStatement(t, first, at \o "2")
    \/ /\ pc[t] = at \o "2"
       /\ SessionStatement(t, second, after)

\* a variant that releases the flag before clearing the handler
InitRollbackFlagFirst(t) ==
    TwoStatements(t, "store_false", "clear_handler", "rollback", "idle")

\* if result.is_err() { *ah = None; HAS_INSTANCE.store(false) }; result
InitRollback(t) ==
    TwoStatements(t, "clear_handler", "store_false", "rollback", "idle")

\* a variant that releases the flag before calling sane_exit
DropSaneFlagFirst(t) ==
    TwoStatements(t, "store_false", "sane_exit", "drop", "idle")

\* Drop for Sane: sys::sane_exit(); HAS_INSTANCE.store(false)
DropSane(t) ==
    TwoStatements(t, "sane_exit", "store_false", "drop", "idle")

\* the owner of the session lets it go out of scope
BeginDrop(t) ==
    /\ pc[t] = "live"
    /\ pc' = [pc EXCEPT ![t] = "drop"]
    /\ issued' = <<>>
    /\ trampoline' = "not_called"
    /\ UNCHANGED <<HAS_INSTANCE, auth_handler, authorize, result, sane_state,
                   exit_calls>>

\* while the session is live the library asks for credentials (e.g. in open)
LiveAuthorize(t) ==
    /\ pc[t] = "live"
    /\ trampoline' = authorize_callback(auth_handler)
    /\ issued' = <<"sane_open">>
    /\ UNCHANGED <<HAS_INSTANCE, auth_handler, pc, authorize, result,
                   sane_state, exit_calls>>

(***************************************************************************)
(* Authorizer: init_exit.rs                                                *)
(***************************************************************************)

\* code points: 'A', Latin-1 e-acute, and the euro sign (not Latin-1)
Chars == {65, 233, 8364}

Strings == UNION {[1..n -> Chars] : n \in 0..MaxStrLen}

\* a credential buffer of n uninitialised cells
UninitBuf(n) == [i \in 1..n |-> <<>>]

\* u8::try_from(char): <<byte>> for a code point up to 0xFF, <<>> otherwise
char_to_u8(ch) == IF ch <= 255 THEN <<ch>> ELSE <<>>

Latin1(str) == \A i \in 1..Len(str) : char_to_u8(str[i]) # <<>>

\* self.username.len() - 1
max_username_len(buf) == Len(buf) - 1

\* self.password.len() - 1
max_password_len(buf) == Len(buf) - 1

\* for (dest, ch) in (&mut target_iter).zip(source.chars()): i cells and i
\* chars have been taken. Zip::next takes the next cell of target_iter first
\* and the next char second, so the cell taken when the chars run out is
\* dropped.
RECURSIVE write_str_loop(_, _, _)
write_str_loop(target, source, i) ==
    IF i >= Len(target)
      THEN [target |-> target, taken |-> i, err |-> "none"]
      ELSE IF i >= Len(source)
             THEN [target |-> target, taken |-> i + 1, err |-> "none"]
             ELSE IF char_to_u8(source[i + 1]) = <<>>
                    THEN [target |-> target, taken |-> i + 1,
                          err |-> "NotLatin1"]
                    ELSE write_str_loop(
                           [target EXCEPT ![i + 1] = char_to_u8(source[i + 1])],
                           source, i + 1)

\* Authorizer::write_str: the loop, then target_iter.next() receives the NUL
write_str(target, source) ==
    LET loop == write_str_loop(target, source, 0) IN
      IF loop.err # "none"
        THEN [res |-> loop.err, target |-> loop.target]
        ELSE IF loop.taken >= Len(target)
               THEN [res |-> "TooLong", target |-> loop.target]
               ELSE [res |-> "Ok",
                     target |-> [loop.target EXCEPT ![loop.taken + 1] = <<0>>]]

AuthOk == [field |-> "none", error |-> "none"]

AuthIdle ==
    /\ username = <<>>
    /\ password = <<>>
    /\ userBuf = <<>>
    /\ passBuf = <<>>
    /\ authResult = AuthOk
    /\ authPc = "unused"

\* the trampoline hands the handler two uninitialised buffers; the handler
\* is about to call provide_credentials(username, password)
AuthInit ==
    /\ username \in Strings
    /\ password \in Strings
    /\ userBuf \in {UninitBuf(n) : n \in 1..MaxBufLen}
    /\ passBuf \in {UninitBuf(n) : n \in 1..MaxBufLen}
    /\ authResult = AuthOk
    /\ authPc = "call"

\* Authorizer::provide_credentials
provide_credentials ==
    /\ authPc = "call"
    /\ LET u == write_str(userBuf, username) IN
         /\ userBuf' = u.target
         /\ IF u.res # "Ok"
              THEN /\ authResult' = [field |-> "Username", error |-> u.res]
                   /\ UNCHANGED passBuf
              ELSE LET p == write_str(passBuf, password) IN
                     /\ passBuf' = p.target
                     /\ authResult' =
                          IF p.res # "Ok"
                            THEN [field |-> "Password", error |-> p.res]
                            ELSE AuthOk
    /\ authPc' = "returned"
    /\ UNCHANGED <<username, password>>

AuthNext == provide_credentials

(***************************************************************************)
(* Device handle and scan state machine: device.rs, device/scan.rs         *)
(***************************************************************************)

frameLoopVars == <<frPc, buf_left, vec_len0, vec_len, vec_cap, try_lines,
                   received, vec_tail>>

Min(a, b) == IF a < b THEN a ELSE b
Max(a, b) == IF a < b THEN b ELSE a

\* statuses the backend may answer with
OpenStatuses == {"Good", "DeviceBusy"}
StartStatuses == {"Good", "NoDocs"}
IoModeStatuses == {"Good", "Unsupported", "Inval"}
GetParamStatuses == {"Good", "IoError"}

\* Option<u32>: <<>> is None, <<n>> is Some(n)
FrameParams ==
    [last_frame : BOOLEAN,
     bytes_per_line : 1..MaxBytesPerLine,
     lines : {<<>>} \cup {<<n>> : n \in 1..MaxLines}]

NoParams == [last_frame |-> FALSE, bytes_per_line |-> 1, lines |-> <<>>]

\* the session the anchor resolves to is live and owned by thread 1
SessionLive ==
    /\ HAS_INSTANCE = TRUE
    /\ auth_handler = None
    /\ pc = [t \in Threads |-> IF t = 1 THEN "live" ELSE "idle"]
    /\ authorize = [t \in Threads |-> None]
    /\ result = [t \in Threads |-> IF t = 1 THEN "Ok" ELSE "none"]
    /\ sane_state = "inited"
    /\ exit_calls = 0
    /\ trampoline = "not_called"

ScanIdle ==
    /\ holder = "none"
    /\ done = FALSE
    /\ started = FALSE
    /\ params = NoParams
    /\ closes = 0
    /\ cancelled = FALSE
    /\ used = {}
    /\ op = "none"
    /\ ret = "none"
    /\ dev_state = "idle"
    /\ avail = 0
    /\ frPc = "idle"
    /\ buf_left = 0
    /\ vec_len0 = 0
    /\ vec_len = 0
    /\ vec_cap = 0
    /\ try_lines = 0
    /\ received = 0
    /\ vec_tail = <<>>
    /\ cancels = 0
    /\ answers = <<>>
    /\ frame_hist = "fresh"

\* Sane::connect_with: with_sane(sys_open)
connect ==
    /\ holder = "none"
    /\ op' = "connect"
    /\ issued' = <<"open">>
    /\ \E st \in OpenStatuses :
         /\ ret' = IF st = "Good" THEN "Ok" ELSE st
         /\ holder' = IF st = "Good" THEN "device" ELSE "none"
         /\ answers' = <<st>>
    /\ UNCHANGED <<done, started, params, closes, cancelled, used, dev_state,
                   avail, frameLoopVars, cancels, frame_hist>>

\* a variant that lets the consumed handle run its destructor
map_sane_dropping_self ==
    /\ holder = "device"
    /\ op' = "map_sane"
    /\ ret' = "Ok"
    /\ issued' = <<"close">>
    /\ answers' = <<"void">>
    /\ closes' = closes + 1
    /\ used' = used \cup {"map_sane"}
    /\ UNCHANGED <<holder, done, started, params, cancelled, dev_state, avail,
                   frameLoopVars, cancels, frame_hist>>

\* DeviceHandle::map_sane / RawDeviceHandle::map_sane: self goes into a
\* ManuallyDrop, the new handle carries the same pointer
map_sane ==
    /\ holder = "device"
    /\ op' = "map_sane"
    /\ ret' = "Ok"
    /\ issued' = <<>>
    /\ answers' = <<>>
    /\ used' = used \cup {"map_sane"}
    /\ UNCHANGED <<holder, done, started, params, closes, cancelled,
                   dev_state, avail, frameLoopVars, cancels, frame_hist>>

\* DeviceHandle::scan_blocking: ScanReader::new(self)
scan_blocking ==
    /\ holder = "device"
    /\ op' = "scan_blocking"
    /\ ret' = "Ok"
    /\ issued' = <<>>
    /\ holder' = "scan"
    /\ done' = FALSE
    /\ cancelled' = FALSE
    /\ cancels' = 0
    /\ answers' = <<>>
    /\ UNCHANGED <<started, params, closes, used, dev_state, avail,
                   frameLoopVars, frame_hist>>

\* Drop for RawDeviceHandle: with_sane(sys_close); the fields of a dropped
\* DeviceHandle or ScanReader are dropped in turn, neither has a Drop impl
drop_handle ==
    /\ holder \in {"device", "scan"}
    /\ op' = IF holder = "device" THEN "drop_device" ELSE "drop_scan"
    /\ ret' = "Ok"
    /\ issued' = <<"close">>
    /\ closes' = closes + 1
    /\ holder' = "closed"
    /\ cancelled' = FALSE
    /\ dev_state' = "idle"
    /\ avail' = 0
    /\ answers' = <<"void">>
    /\ cancels' = 0
    /\ UNCHANGED <<done, started, params, used, frameLoopVars, frame_hist>>

\* a variant of cancel that does not record that the scan is over
ScanReader_cancel_not_done(d) ==
    [done |-> d, issued |-> IF d THEN <<>> ELSE <<"cancel">>]

\* ScanReader::cancel on a reader whose done flag is d: the new flag and the
\* underlying calls (RawDeviceHandle::cancel calls sys_cancel directly)
ScanReader_cancel(d) ==
    [done |-> TRUE, issued |-> IF d THEN <<>> ELSE <<"cancel">>]

BackendAfterCancel(iss) ==
    IF iss = <<>> THEN dev_state
    ELSE IF dev_state = "scanning" THEN "cancelled" ELSE dev_state

\* ScanReader::cancel
cancel ==
    /\ holder = "scan"
    /\ op' = "cancel"
    /\ ret' = "Ok"
    /\ LET c == ScanReader_cancel(done) IN
         /\ done' = c.done
         /\ issued' = c.issued
         /\ dev_state' = BackendAfterCancel(c.issued)
         /\ answers' = [i \in 1..Len(c.issued) |-> "void"]
         /\ cancels' = cancels + Len(c.issued)
    /\ cancelled' = TRUE
    /\ UNCHANGED <<holder, started, params, closes, used, avail,
                   frameLoopVars, frame_hist>>

\* ScanReader::into_inner: self.cancel(); self.device
into_inner ==
    /\ holder = "scan"
    /\ op' = "into_inner"
    /\ ret' = "Ok"
    /\ LET c == ScanReader_cancel(done) IN
         /\ done' = c.done
         /\ issued' = c.issued
         /\ dev_state' = BackendAfterCancel(c.issued)
         /\ answers' = [i \in 1..Len(c.issued) |-> "void"]
         /\ cancels' = cancels + Len(c.issued)
    /\ holder' = "device"
    /\ cancelled' = FALSE
    /\ used' = used \cup {"into_inner"}
    /\ UNCHANGED <<started, params, closes, avail, frameLoopVars, frame_hist>>

\* a variant of the next_frame entry check that never sees the flag
next_frame_returns_early_never(d) == FALSE

\* next_frame: if self.done { return Ok(None) }
next_frame_returns_early(d) == d

start_failed_ignored(st) == FALSE

\* next_frame: sane.sys_start(handle)? leaves the closure on any error
start_failed(st) == st # "Good"

io_mode_failed_strict(io) == io # "Good"

\* next_frame: an error of sys_set_io_mode leaves the closure unless its
\* status is Unsupported
io_mode_failed(io) == io # "Good" /\ io # "Unsupported"

\* the closure of next_frame for the statuses the backend answers with:
\* the underlying calls it issues and the result
next_frame_calls(st, io, gp) ==
    IF start_failed(st)
      THEN [issued |-> <<"start">>, ret |-> st]
      ELSE IF io_mode_failed(io)
             THEN [issued |-> <<"start", "set_io_mode">>, ret |-> io]
             ELSE IF gp # "Good"
                    THEN [issued |-> <<"start", "set_io_mode",
                                       "get_parameters">>,
                          ret |-> gp]
                    ELSE [issued |-> <<"start", "set_io_mode",
                                       "get_parameters">>,
                          ret |-> "Ok(Some)"]

\* ScanReader::next_frame
next_frame ==
    /\ holder = "scan"
    /\ op' = "next_frame"
    /\ IF next_frame_returns_early(done)
         THEN /\ ret' = "Ok(None)"
              /\ issued' = <<>>
              /\ answers' = <<>>
              /\ UNCHANGED <<holder, started, params, dev_state, avail,
                             frame_hist>>
         ELSE \E st \in StartStatuses :
              \E io \in (IF st = "Good" THEN IoModeStatuses ELSE {"Good"}) :
              \E gp \in (IF next_frame_calls(st, io, "Good").ret = "Ok(Some)"
                            THEN GetParamStatuses ELSE {"Good"}) :
                LET c == next_frame_calls(st, io, gp) IN
                  /\ ret' = c.ret
                  /\ issued' = c.issued
                  /\ answers' = SubSeq(<<st, io, gp>>, 1, Len(c.issued))
                  /\ IF st = "Good"
                       THEN /\ dev_state' = "scanning"
                            /\ avail' \in 0..MaxFrameBytes
                       ELSE UNCHANGED <<dev_state, avail>>
                  /\ IF c.ret = "Ok(Some)"
                       THEN /\ holder' = "frame"
                            /\ params' \in FrameParams
                            /\ started' = FALSE
                            /\ frame_hist' = "fresh"
                       ELSE UNCHANGED <<holder, params, started, frame_hist>>
    /\ UNCHANGED <<done, closes, cancelled, used, frameLoopVars, cancels>>

\* what sane_read may answer when offered a buffer of len bytes. Reading
\* while the device is not scanning breaks the safety contract of sys_read,
\* so any answer is possible then.
ReadOutcomes(len) ==
    LET errors == {[status |-> e, n |-> 0] : e \in {"Cancelled", "IoError"}}
        eof == {[status |-> "Eof", n |-> 0]}
        good(most) == {[status |-> "Good", n |-> n] :
                          n \in (IF len = 0 THEN {0} ELSE 1..most)}
    IN IF dev_state = "scanning"
         THEN errors \cup (IF avail = 0 THEN eof ELSE good(Min(len, avail)))
         ELSE errors \cup eof \cup good(len)

BackendAfterRead(o) ==
    [dev_state |-> CASE o.status = "Good" -> dev_state
                     [] o.status = "Eof" -> "eof"
                     [] o.status = "Cancelled" -> "cancelled"
                     [] OTHER -> "error",
     avail |-> IF dev_state = "scanning" /\ o.status = "Good"
                 THEN avail - o.n ELSE avail]

\* read_frame: matches!(err.sys_status(), Cancelled | Eof if last_frame);
\* the guard belongs to the whole or-pattern
read_error_ends_scan(status, last_frame) ==
    status \in {"Cancelled", "Eof"} /\ last_frame

\* the FrameReader's history after a read that the backend answered with
\* status
AfterRead(status) ==
    IF status \in {"Eof", "Cancelled"} THEN "ended"
    ELSE IF frame_hist = "ended" THEN "ended" ELSE "read"

done_after_read_assigned(d, ends) == ends

\* read_frame: if matches!(..) { self.scanner.done = true }
done_after_read(d, ends) == IF ends THEN TRUE ELSE d

read_frame_started_kept(s) == s

\* read_frame: self.started = true
read_frame_started(s) == TRUE

\* FrameReader::read_frame
read_frame ==
    /\ holder = "frame"
    /\ frPc = "idle"
    /\ op' = "read_frame"
    /\ started' = read_frame_started(started)
    /\ issued' = <<"read">>
    /\ \E len \in 1..MaxReadBuf : \E o \in ReadOutcomes(len) :
         /\ ret' = IF o.status = "Good" THEN "Ok" ELSE o.status
         /\ answers' = <<o.status>>
         /\ frame_hist' = AfterRead(o.status)
         /\ done' = done_after_read(done,
                        o.status # "Good"
                          /\ read_error_ends_scan(o.status,
                                                  params.last_frame))
         /\ dev_state' = BackendAfterRead(o).dev_state
         /\ avail' = BackendAfterRead(o).avail
    /\ UNCHANGED <<holder, params, closes, cancelled, used, frameLoopVars,
                   cancels>>

\* Vec::reserve_exact(additional): capacity afterwards
reserve_exact(len, cap, additional) ==
    IF cap - len >= additional THEN cap ELSE len + additional

\* Vec::reserve(additional): capacity afterwards (amortised growth)
reserve(len, cap, additional) ==
    IF cap - len >= additional THEN cap
    ELSE Max(8, Max(2 * cap, len + additional))

\* (bytes_per_line * lines) as usize; the u32 product stays far below 2^32
\* for the frame sizes the backend reports here
bytes_to_read == params.bytes_per_line * params.lines[1]

\* the n bytes the backend delivers after the first `from` bytes of the
\* frame; the k-th byte of a frame is written k
Chunk(from, n) == [i \in 1..n |-> from + i]

\* sane_read stores chunk at offset `at` of the memory mem (0 marks a byte
\* that was never written)
WriteAt(mem, at, chunk) ==
    [i \in 1..Max(Len(mem), at + Len(chunk)) |->
        IF i > at /\ i <= at + Len(chunk) THEN chunk[i - at]
        ELSE IF i <= Len(mem) THEN mem[i] ELSE 0]

\* FrameReader::read_full_frame up to the first loop test
read_full_frame ==
    /\ holder = "frame"
    /\ frPc = "idle"
    /\ op' = "read_full_frame"
    /\ issued' = <<>>
    /\ answers' = <<>>
    /\ IF started
         THEN /\ ret' = "panic"
              /\ UNCHANGED <<started, done, frameLoopVars, frame_hist>>
         ELSE /\ ret' = "running"
              /\ started' = TRUE
              /\ frame_hist' = IF frame_hist = "ended" THEN "ended" ELSE "read"
              /\ done' = IF params.last_frame THEN TRUE ELSE done
              /\ received' = 0
              /\ vec_tail' = <<>>
              /\ \E len0 \in 0..MaxVecLen :
                   /\ vec_len0' = len0
                   /\ vec_len' = len0
                   /\ IF params.lines # <<>>
                        THEN /\ frPc' = "known"
                             /\ vec_cap' = reserve_exact(len0, len0,
                                                         bytes_to_read)
                             /\ buf_left' = bytes_to_read
                             /\ try_lines' = 0
                        ELSE /\ frPc' = "unknown"
                             /\ vec_cap' = len0
                             /\ buf_left' = 0
                             /\ try_lines' = 32
    /\ UNCHANGED <<holder, params, closes, cancelled, used, dev_state, avail,
                   cancels>>

buf_is_empty_after_read(left) == left # bytes_to_read

\* read_full_frame, lines known: the loop test buf.is_empty()
buf_is_empty(left) == left = 0

\* read_full_frame, lines known: while !buf.is_empty() { sys_read_uninit }
read_full_frame_known ==
    /\ holder = "frame"
    /\ frPc = "known"
    /\ op' = "read_full_frame"
    /\ IF buf_is_empty(buf_left)
         THEN /\ vec_len' = vec_len + bytes_to_read
              /\ ret' = "Ok"
              /\ frPc' = "idle"
              /\ issued' = <<>>
              /\ answers' = <<>>
              /\ UNCHANGED <<buf_left, dev_state, avail, received, vec_tail,
                             frame_hist>>
         ELSE /\ issued' = <<"read">>
              /\ \E o \in ReadOutcomes(buf_left) :
                   /\ answers' = <<o.status>>
                   /\ frame_hist' = AfterRead(o.status)
                   /\ dev_state' = BackendAfterRead(o).dev_state
                   /\ avail' = BackendAfterRead(o).avail
                   /\ CASE o.status = "Eof" ->
                             /\ ret' = "panic"
                             /\ frPc' = "idle"
                             /\ UNCHANGED <<buf_left, received, vec_tail>>
                        [] o.status = "Good" ->
                             /\ ret' = "running"
                             /\ buf_left' = buf_left - o.n
                             /\ received' = received + o.n
                             /\ vec_tail' = WriteAt(vec_tail,
                                                bytes_to_read - buf_left,
                                                Chunk(received, o.n))
                             /\ UNCHANGED frPc
                        [] OTHER ->
                             /\ ret' = o.status
                             /\ frPc' = "idle"
                             /\ UNCHANGED <<buf_left, received, vec_tail>>
              /\ UNCHANGED vec_len
    /\ UNCHANGED <<holder, done, started, params, closes, cancelled, used,
                   vec_len0, vec_cap, try_lines, cancels>>

set_len_forgotten(len, read_len) == len

\* read_full_frame, lines unknown: buf_vec.set_len(buf_vec.len() + read_len)
set_len_after_read(len, read_len) == len + read_len

\* read_full_frame, lines unknown: one turn of the loop
read_full_frame_unknown ==
    /\ holder = "frame"
    /\ frPc = "unknown"
    /\ op' = "read_full_frame"
    /\ issued' = <<"read">>
    /\ LET reserved_bytes == params.bytes_per_line * try_lines
           cap == reserve(vec_len, vec_cap, reserved_bytes)
       IN /\ vec_cap' = cap
          /\ \E o \in ReadOutcomes(cap - vec_len) :
               /\ answers' = <<o.status>>
               /\ frame_hist' = AfterRead(o.status)
               /\ dev_state' = BackendAfterRead(o).dev_state
               /\ avail' = BackendAfterRead(o).avail
               /\ CASE o.status = "Eof" ->
                         /\ ret' = "Ok"
                         /\ frPc' = "idle"
                         /\ UNCHANGED <<vec_len, try_lines, received,
                                        vec_tail>>
                    [] o.status = "Good" ->
                         /\ ret' = "running"
                         /\ vec_len' = set_len_after_read(vec_len, o.n)
                         /\ received' = received + o.n
                         /\ vec_tail' = WriteAt(vec_tail, vec_len - vec_len0,
                                                Chunk(received, o.n))
                         /\ try_lines' = IF o.n < reserved_bytes \div 2
                                           THEN try_lines \div 2
                                           ELSE try_lines + 1
                         /\ UNCHANGED frPc
                    [] OTHER ->
                         /\ ret' = o.status
                         /\ frPc' = "idle"
                         /\ UNCHANGED <<vec_len, try_lines, received,
                                        vec_tail>>
    /\ UNCHANGED <<holder, done, started, params, closes, cancelled, used,
                   buf_left, vec_len0, cancels>>

\* the FrameReader goes out of scope (it has no Drop impl); the borrow of the
\* ScanReader ends
drop_frame ==
    /\ holder = "frame"
    /\ frPc = "idle"
    /\ op' = "drop_frame"
    /\ ret' = "Ok"
    /\ issued' = <<>>
    /\ holder' = "scan"
    /\ started' = FALSE
    /\ params' = NoParams
    /\ frPc' = "idle"
    /\ buf_left' = 0
    /\ vec_len0' = 0
    /\ vec_len' = 0
    /\ vec_cap' = 0
    /\ try_lines' = 0
    /\ received' = 0
    /\ vec_tail' = <<>>
    /\ answers' = <<>>
    /\ frame_hist' = "fresh"
    /\ UNCHANGED <<done, closes, cancelled, used, dev_state, avail, cancels>>

ScanNext ==
    \/ connect
    \/ map_sane
    \/ scan_blocking
    \/ drop_handle
    \/ cancel
    \/ into_inner
    \/ next_frame
    \/ read_frame
    \/ read_full_frame
    \/ read_full_frame_known
    \/ read_full_frame_unknown
    \/ drop_frame

SessionNext ==
    \E t \in Threads :
        \/ InitCall(t)
        \/ InitCas(t)
        \/ InitStore(t)
        \/ InitSaneInit(t)
        \/ InitRollback(t)
        \/ BeginDrop(t)
        \/ DropSane(t)
        \/ LiveAuthorize(t)

\* ---- several threads sharing a Mutex<Sane> anchor ----

Users == 1..NumUsers

\* no thread has connected yet and the mutex is free
MutexIdle ==
    /\ mtx_owner = 0
    /\ tpc = [t \in Users |-> "idle"]
    /\ top = [t \in Users |-> "none"]
    /\ tcalls = [t \in Users |-> <<>>]
    /\ tin = [t \in Users |-> "none"]
    /\ tres = [t \in Users |-> "Ok"]
    /\ tholder = [t \in Users |-> "none"]
    /\ tdone = [t \in Users |-> FALSE]

RawDeviceHandle_cancel_with_sane == [with_sane |-> TRUE, calls |-> <<"cancel">>]

\* RawDeviceHandle::cancel: Sane::<()>::sys_cancel(self.handle), not inside
\* with_sane
RawDeviceHandle_cancel == [with_sane |-> FALSE, calls |-> <<"cancel">>]

\* an operation that makes no underlying call
NoCalls == [with_sane |-> FALSE, calls |-> <<>>]

\* an operation that makes its calls inside one with_sane closure
InWithSane(calls) == [with_sane |-> TRUE, calls |-> calls]

\* DeviceOption::size, called by get and set of a string option inside
\* their closure: self.raw.with_sane(..) around a read of the descriptor
DeviceOption_size == <<"with_sane">>

\* the operations a thread can call on what it holds (h, with done flag d),
\* each with what it does inside its closure: underlying calls, and
\* "with_sane" for a nested with_sane on the same anchor
Operations(h, d) ==
    CASE h = "none" ->
           [connect |-> InWithSane(<<"open">>)]
      [] h = "device" ->
           [get_parameters |-> InWithSane(<<"get_parameters">>),
            option_get |-> InWithSane(<<"get_option_value">>),
            option_set |-> InWithSane(<<"set_option_value">>),
            option_get_string |-> InWithSane(DeviceOption_size
                                               \o <<"get_option_value">>),
            option_set_string |-> InWithSane(DeviceOption_size
                                               \o <<"set_option_value">>),
            scan_blocking |-> NoCalls,
            drop_handle |-> InWithSane(<<"close">>)]
      [] h = "scan" ->
           [next_frame |->
                IF d THEN NoCalls
                ELSE InWithSane(<<"start", "set_io_mode", "get_parameters">>),
            cancel |-> IF d THEN NoCalls ELSE RawDeviceHandle_cancel,
            drop_handle |-> InWithSane(<<"close">>)]
      [] OTHER ->
           [read_frame |-> InWithSane(<<"read">>),
            read_full_frame |-> InWithSane(<<"read", "read">>),
            drop_frame |-> NoCalls]

\* what the thread holds once operation o, called on h with done flag d, has
\* returned r
HolderAfter(h, d, o, r) ==
    CASE o = "connect" -> IF r = "Ok" THEN "device" ELSE "none"
      [] o = "scan_blocking" -> "scan"
      [] o = "next_frame" -> IF ~d /\ r = "Ok" THEN "frame" ELSE "scan"
      [] o = "drop_frame" -> "scan"
      [] o = "drop_handle" -> "none"
      [] OTHER -> h

\* the values the done flag can have after operation o returned r
DoneAfter(d, o, r) ==
    CASE o = "scan_blocking" -> {FALSE}
      [] o = "cancel" -> {TRUE}
      [] o = "read_frame" /\ r = "Err" -> {d, TRUE}
      [] o = "read_full_frame" -> {d, TRUE}
      [] OTHER -> {d}

\* operation o of thread t returns r
Return(t, o, r) ==
    /\ tpc' = [tpc EXCEPT ![t] = "idle"]
    /\ top' = [top EXCEPT ![t] = "none"]
    /\ tres' = [tres EXCEPT ![t] = "Ok"]
    /\ tholder' = [tholder EXCEPT
                     ![t] = HolderAfter(tholder[t], tdone[t], o, r)]
    /\ \E d \in DoneAfter(tdone[t], o, r) :
         tdone' = [tdone EXCEPT ![t] = d]

\* thread t calls one of the operations of what it holds
begin_op(t) ==
    /\ tpc[t] = "idle"
    /\ LET ops == Operations(tholder[t], tdone[t])
       IN \E o \in DOMAIN ops :
            /\ tcalls' = [tcalls EXCEPT ![t] = ops[o].calls]
            /\ IF ops[o].calls = <<>>
                 THEN /\ Return(t, o, "Ok")
                      /\ UNCHANGED tin
                 ELSE /\ top' = [top EXCEPT ![t] = o]
                      /\ UNCHANGED <<tres, tholder, tdone>>
                      /\ IF ops[o].with_sane
                           THEN /\ tpc' = [tpc EXCEPT ![t] = "locking"]
                                /\ UNCHANGED tin
                           ELSE /\ tpc' = [tpc EXCEPT ![t] = "in_call"]
                                /\ tin' = [tin EXCEPT
                                             ![t] = ops[o].calls[1]]
    /\ UNCHANGED mtx_owner

\* the mutex after a thread panicked while holding its guard
Poisoned == -1

lock_always_available(owner) == TRUE

\* Mutex::lock returns once no thread holds the mutex
lock_available(owner) == owner = 0

\* with_sane of Mutex<T>: self.lock()
mutex_lock(t) ==
    /\ tpc[t] = "locking"
    /\ lock_available(mtx_owner)
    /\ mtx_owner' = t
    /\ tpc' = [tpc EXCEPT ![t] = "locked"]
    /\ UNCHANGED <<top, tcalls, tin, tres, tholder, tdone>>

\* lock() while expect("poisoned Mutex") is waiting for it: a poisoned mutex
\* makes with_sane panic
lock_poisoned(t) ==
    /\ tpc[t] = "locking"
    /\ mtx_owner = Poisoned
    /\ Return(t, top[t], "panic")
    /\ tcalls' = [tcalls EXCEPT ![t] = <<>>]
    /\ UNCHANGED <<mtx_owner, tin>>

\* lock() by the thread that holds the mutex never returns: it blocks for
\* ever (no step), or it panics, and the unwinding drops the guard of the
\* outer closure, which poisons the mutex
relock_panic(t) ==
    /\ tpc[t] = "locking"
    /\ mtx_owner = t
    /\ mtx_owner' = Poisoned
    /\ Return(t, top[t], "panic")
    /\ tcalls' = [tcalls EXCEPT ![t] = <<>>]
    /\ UNCHANGED tin

\* inside the closure: the next underlying call is entered, or the nested
\* with_sane asks for the lock
call_begin(t) ==
    /\ tpc[t] = "locked"
    /\ tcalls[t] # <<>>
    /\ IF Head(tcalls[t]) = "with_sane"
         THEN /\ tpc' = [tpc EXCEPT ![t] = "locking"]
              /\ tcalls' = [tcalls EXCEPT ![t] = Tail(tcalls[t])]
              /\ UNCHANGED tin
         ELSE /\ tin' = [tin EXCEPT ![t] = Head(tcalls[t])]
              /\ tpc' = [tpc EXCEPT ![t] = "in_call"]
              /\ UNCHANGED tcalls
    /\ UNCHANGED <<mtx_owner, top, tres, tholder, tdone>>

\* the underlying call returns; an error ends the closure's calls
call_end(t) ==
    /\ tpc[t] = "in_call"
    /\ tin' = [tin EXCEPT ![t] = "none"]
    /\ \E r \in {"Ok", "Err"} :
         IF mtx_owner = t
           THEN /\ tpc' = [tpc EXCEPT ![t] = "locked"]
                /\ tres' = [tres EXCEPT ![t] = r]
                /\ tcalls' = [tcalls EXCEPT
                                ![t] = IF r = "Ok" THEN Tail(tcalls[t])
                                       ELSE <<>>]
                /\ UNCHANGED <<top, tholder, tdone>>
           ELSE /\ Return(t, top[t], "Ok")
                /\ tcalls' = [tcalls EXCEPT ![t] = <<>>]
    /\ UNCHANGED mtx_owner

\* the closure returns, the guard is dropped and the operation returns
mutex_unlock(t) ==
    /\ tpc[t] = "locked"
    /\ tcalls[t] = <<>>
    /\ mtx_owner' = 0
    /\ Return(t, top[t], tres[t])
    /\ UNCHANGED <<tcalls, tin>>

UserStep(t) ==
    \/ begin_op(t)
    \/ mutex_lock(t)
    \/ lock_poisoned(t)
    \/ relock_panic(t)
    \/ call_begin(t)
    \/ call_end(t)
    \/ mutex_unlock(t)

MutexNext == \E t \in Users : UserStep(t)

\* ---- the frame decoder ----

\* FrameDecoderState::Initial
Initial ==
    [tag |-> "Initial", format |-> "none", bytes |-> 0,
     has_red |-> FALSE, has_green |-> FALSE, has_blue |-> FALSE]

\* FrameDecoder::with_buffer(buffer) followed by
\* decode_black_and_white_as_bytes(as_bytes); `spare` is what has been
\* written to the spare capacity of the buffer (0 = uninitialised)
FrameDecoder_with(buffer, as_bytes) ==
    [state |-> Initial, buffer |-> buffer, spare |-> <<>>, width |-> 0,
     height |-> 0, black_and_white_as_bytes |-> as_bytes]

\* FrameDecoder::new
FrameDecoder_new == FrameDecoder_with(<<>>, FALSE)

\* no decoder is in use
DecIdle ==
    /\ decoder = FrameDecoder_new
    /\ dec_ret = "none"

\* a byte of spare capacity that was never written
Uninit == -1

\* the k-th byte of the frames the decoder is fed: a few bit patterns, then
\* a ramp
FrameByte(k) ==
    LET patterns == <<170, 240, 15, 129>>
    IN IF k <= Len(patterns) THEN patterns[k] ELSE 10 * k

\* a frame of n bytes; `huge` stands for a slice whose length does not fit
\* in 32 bits (its bytes are never looked at)
FrameOfLen(n) == [huge |-> FALSE, bytes |-> [k \in 1..n |-> FrameByte(k)]]

HugeFrame == [huge |-> TRUE, bytes |-> <<>>]

DecFrames == {FrameOfLen(n) : n \in 0..MaxDecFrameLen} \cup {HugeFrame}

\* sys::Frame values; "Other" is any value the bindings do not know
Formats == {"Gray", "Rgb", "Red", "Green", "Blue", "Other"}

\* depths: 0, the bitmap depth, whole-byte depths and one that is neither
Depths == {0, 1, 8, 12, 16}

\* pixels_per_line: one or two pixels, one byte of bitmap
PixelsPerLine == {1, 2, 8}

\* FrameParameters as far as write reads them
DecParams ==
    [format : Formats,
     depth : Depths,
     bytes_per_line : 0..MaxDecBytesPerLine,
     pixels_per_line : PixelsPerLine,
     lines : {<<>>} \cup {<<n>> : n \in 1..MaxDecLines}]

\* frame.chunks_exact(bytes_per_line)
chunks_exact(q, size) ==
    [r \in 1..(Len(q) \div size) |-> SubSeq(q, (r - 1) * size + 1, r * size)]

\* concatenation of a sequence of sequences (flat_map)
RECURSIVE Flatten(_)
Flatten(qs) == IF qs = <<>> THEN <<>> ELSE Head(qs) \o Flatten(Tail(qs))

\* the outcome of a copy: the bytes, or a panic
Panic == [panic |-> TRUE, data |-> <<>>]

Copied(data) == [panic |-> FALSE, data |-> data]

row_prefixes_with_padding(bytes, bytes_per_line, n, wanted) == Copied(bytes)

\* frame.chunks_exact(bytes_per_line).flat_map(|line| line[..n].iter()):
\* the bytes it yields, or a panic when the slice line[..n] is out of range;
\* the closure runs only once the iterator is advanced, which `wanted`
\* (the consumer asks for at least one item) stands for
row_prefixes(bytes, bytes_per_line, n, wanted) ==
    LET lines == chunks_exact(bytes, bytes_per_line)
    IN IF wanted /\ Len(lines) > 0 /\ n > bytes_per_line
         THEN Panic
         ELSE Copied(Flatten([r \in 1..Len(lines) |->
                                 SubSeq(lines[r], 1, n)]))

complement_dropped(b) == b

\* !*src on a u8
complement(b) == 255 - b

bit_to_byte_set_is_one(byte, j) ==
    IF (byte \div (2 ^ (7 - j))) % 2 # 0 THEN 1 ELSE 0

\* if *byte & (0x80 >> j) != 0 { 0 } else { 1 }
bit_to_byte(byte, j) == IF (byte \div (2 ^ (7 - j))) % 2 # 0 THEN 0 ELSE 1

\* the black-and-white branch with black_and_white_as_bytes: dst[8 * i + j]
expand_bits(bytes) ==
    [k \in 1..(8 * Len(bytes)) |->
        bit_to_byte(bytes[((k - 1) \div 8) + 1], (k - 1) % 8)]

\* offset = bytes_per_pixel * match channel { Red => 0, Green => 1, Blue => 2 }
\* with bytes_per_pixel = bytes_per_channel * 3
channel_offset(bytes_per_channel, channel) ==
    (bytes_per_channel * 3) * (CASE channel = "Red" -> 0
                                 [] channel = "Green" -> 1
                                 [] OTHER -> 2)

\* FrameDecoder::write_channel on the spare capacity dst: the new contents of
\* dst, or a panic. Zip advances dst_channels first (pixel[offset..offset +
\* bytes_per_channel] must lie inside the pixel), then channels
\* (line[..width * bytes_per_channel] must lie inside the line)
write_channel(dst, bytes, bytes_per_line, width, bytes_per_channel, offset) ==
    LET pixel == 3 * bytes_per_channel
        pixels == Len(dst) \div pixel
        src == row_prefixes(bytes, bytes_per_line,
                            width * bytes_per_channel, pixels > 0)
    IN IF pixels > 0 /\ offset + bytes_per_channel > pixel THEN Panic
       ELSE IF src.panic THEN Panic
       ELSE LET channels == Len(src.data) \div bytes_per_channel
                pairs == IF pixels < channels THEN pixels ELSE channels
            IN Copied([k \in 1..Len(dst) |->
                  LET p == (k - 1) \div pixel
                      within == (k - 1) % pixel
                  IN IF p < pairs /\ within >= offset
                          /\ within < offset + bytes_per_channel
                       THEN src.data[p * bytes_per_channel
                                       + (within - offset) + 1]
                       ELSE dst[k]])

\* FrameDecoderState::Done(format)
Done(format, bytes) ==
    [tag |-> "Done", format |-> format, bytes |-> bytes,
     has_red |-> FALSE, has_green |-> FALSE, has_blue |-> FALSE]

\* FrameDecoderState::RgbParts { .. }
RgbParts(bytes_per_channel, red, green, blue) ==
    [tag |-> "RgbParts", format |-> "none", bytes |-> bytes_per_channel,
     has_red |-> red, has_green |-> green, has_blue |-> blue]

has_chan_never(st, channel) == FALSE

\* the flag of RgbParts that belongs to channel
has_chan(st, channel) ==
    CASE channel = "Red" -> st.has_red
      [] channel = "Green" -> st.has_green
      [] OTHER -> st.has_blue

flags_set_without_blue(st) ==
    (IF st.has_red THEN 1 ELSE 0) + (IF st.has_green THEN 1 ELSE 0)

\* the number of flags of RgbParts that are set
flags_set(st) ==
    (IF st.has_red THEN 1 ELSE 0) + (IF st.has_green THEN 1 ELSE 0)
      + (IF st.has_blue THEN 1 ELSE 0)

Returned_reset(dec, result_) ==
    [dec |-> IF result_ = "Ok" THEN dec
             ELSE [dec EXCEPT !.state = Initial, !.width = 0, !.height = 0],
     ret |-> result_]

\* what write returns
Returned(dec, result_) == [dec |-> dec, ret |-> result_]

\* write, branches that copy whole pixels and finish the image: black and
\* white, grayscale, rgb. copy is what was written to the first dst_len
\* bytes of the spare capacity
finish(dec, copy, f_width, f_height, state) ==
    IF copy.panic THEN Returned(dec, "panic")
    ELSE Returned([dec EXCEPT !.buffer = dec.buffer \o copy.data,
                              !.width = f_width,
                              !.height = f_height,
                              !.state = state], "Ok")

\* write after the checks on the parameters: match (&mut self.state,
\* params.sys_format())
write_match(dec, bytes, fparams, f_width, f_height) ==
    LET st == dec.state
        fmt == fparams.format
        depth == fparams.depth
        bpl == fparams.bytes_per_line
        ppl == fparams.pixels_per_line
        pixels == f_width * f_height
    IN CASE st.tag = "Initial" /\ fmt = "Gray" /\ depth = 1 ->
              IF ppl % 8 # 0 THEN Returned(dec, "UnsupportedParameters")
              ELSE LET src == row_prefixes(bytes, bpl, ppl \div 8,
                                           IF dec.black_and_white_as_bytes
                                             THEN TRUE
                                             ELSE pixels \div 8 > 0)
                   IN finish(dec,
                             IF src.panic THEN Panic
                             ELSE IF dec.black_and_white_as_bytes
                                    THEN Copied(expand_bits(src.data))
                                    ELSE Copied([k \in 1..Len(src.data) |->
                                                   complement(src.data[k])]),
                             f_width, f_height, Done("BlackAndWhite", 0))
         [] st.tag = "Initial" /\ fmt = "Gray" /\ depth # 1 ->
              IF depth % 8 # 0 THEN Returned(dec, "UnsupportedParameters")
              ELSE LET bytes_per_pixel == depth \div 8
                   IN finish(dec,
                             row_prefixes(bytes, bpl, ppl * bytes_per_pixel,
                                          pixels * bytes_per_pixel > 0),
                             f_width, f_height, Done("Gray", bytes_per_pixel))
         [] st.tag = "Initial" /\ fmt = "Rgb" ->
              IF depth % 8 # 0 THEN Returned(dec, "UnsupportedParameters")
              ELSE LET bytes_per_channel == depth \div 8
                       bytes_per_pixel == bytes_per_channel * 3
                   IN finish(dec,
                             row_prefixes(bytes, bpl, ppl * bytes_per_pixel,
                                          pixels * bytes_per_pixel > 0),
                             f_width, f_height, Done("Rgb", bytes_per_channel))
         [] st.tag = "Initial" /\ fmt \in {"Red", "Green", "Blue"} ->
              IF depth % 8 # 0 THEN Returned(dec, "UnsupportedParameters")
              ELSE LET bytes_per_channel == depth \div 8
                       dst_len == pixels * (bytes_per_channel * 3)
                       dst == write_channel([k \in 1..dst_len |-> Uninit],
                                            bytes, bpl, f_width,
                                            bytes_per_channel,
                                            channel_offset(bytes_per_channel,
                                                           fmt))
                   IN IF dst.panic THEN Returned(dec, "panic")
                      ELSE Returned(
                             [dec EXCEPT
                                !.spare = dst.data,
                                !.width = f_width,
                                !.height = f_height,
                                !.state = RgbParts(bytes_per_channel,
                                                   fmt = "Red", fmt = "Green",
                                                   fmt = "Blue")], "Ok")
         [] st.tag = "RgbParts" /\ fmt \in {"Red", "Green", "Blue"} ->
              IF has_chan(st, fmt) THEN Returned(dec, "DuplicateChannel")
              ELSE IF f_width # dec.width \/ f_height # dec.height
                THEN Returned(dec, "UnexpectedParameters")
              ELSE IF depth % 8 # 0 \/ depth \div 8 # st.bytes
                THEN Returned(dec, "UnexpectedParameters")
              ELSE LET dst == write_channel(dec.spare, bytes, bpl, f_width,
                                            st.bytes,
                                            channel_offset(st.bytes, fmt))
                   IN IF dst.panic THEN Returned(dec, "panic")
                      ELSE IF flags_set(st) = 2
                        THEN Returned([dec EXCEPT
                                         !.buffer = dec.buffer \o dst.data,
                                         !.spare = <<>>,
                                         !.state = Done("Rgb", st.bytes)],
                                      "Ok")
                        ELSE Returned(
                               [dec EXCEPT
                                  !.spare = dst.data,
                                  !.state = RgbParts(st.bytes,
                                              st.has_red \/ fmt = "Red",
                                              st.has_green \/ fmt = "Green",
                                              st.has_blue \/ fmt = "Blue")],
                               "Ok")
         [] OTHER -> Returned(dec, "UnsupportedParameters")

is_done_never(dec) == FALSE

\* FrameDecoder::is_done
is_done(dec) == dec.state.tag = "Done"

\* FrameDecoder::into_image: the image when the decoder is done, otherwise
\* the buffer as it is
into_image(dec) ==
    IF dec.state.tag = "Done"
      THEN [ok |-> TRUE, data |-> dec.buffer, format |-> dec.state.format,
            bytes |-> dec.state.bytes, width |-> dec.width,
            height |-> dec.height]
      ELSE [ok |-> FALSE, data |-> dec.buffer]

\* FrameDecoder::write: the checks before the match, then the match
write(dec, frame, fparams) ==
    IF is_done(dec) THEN Returned(dec, "AlreadyDone")
    ELSE IF fparams.depth = 0 THEN Returned(dec, "InvalidParameters")
    ELSE IF frame.huge THEN Returned(dec, "InvalidParameters")
    ELSE IF fparams.bytes_per_line = 0 THEN Returned(dec, "panic")
    ELSE IF Len(frame.bytes) % fparams.bytes_per_line # 0
      THEN Returned(dec, "InvalidParameters")
    ELSE LET f_height == Len(frame.bytes) \div fparams.bytes_per_line
         IN IF fparams.lines # <<>> /\ fparams.lines[1] # f_height
              THEN Returned(dec, "InvalidParameters")
              ELSE write_match(dec, frame.bytes, fparams,
                               fparams.pixels_per_line, f_height)

\* a decoder was built: FrameDecoder::new(), or with_buffer on a buffer that
\* already holds a byte followed by decode_black_and_white_as_bytes(true)
DecInit ==
    /\ decoder \in {FrameDecoder_new, FrameDecoder_with(<<7>>, TRUE)}
    /\ dec_ret = "none"

\* a caller writes a frame to a decoder that is not done; a panic ends the
\* use of the decoder
write_frame ==
    /\ dec_ret # "panic"
    /\ ~is_done(decoder)
    /\ \E frame \in DecFrames, fparams \in DecParams :
         LET r == write(decoder, frame, fparams)
         IN /\ decoder' = r.dec
            /\ dec_ret' = r.ret

\* the frames and parameters a caller writes to a decoder that is done:
\* an empty, a full and an oversized frame, with parameters of every format
\* and depth, valid or not
DoneFrames == {FrameOfLen(0), FrameOfLen(MaxDecFrameLen), HugeFrame}

DoneParams ==
    [format : Formats,
     depth : Depths,
     bytes_per_line : {0, 1},
     pixels_per_line : {1},
     lines : {<<>>}]

\* a caller writes a frame to a decoder that is done
write_after_done ==
    /\ dec_ret # "panic"
    /\ is_done(decoder)
    /\ \E frame \in DoneFrames, fparams \in DoneParams :
         LET r == write(decoder, frame, fparams)
         IN /\ decoder' = r.dec
            /\ dec_ret' = r.ret

DecoderInit ==
    SessionLive /\ issued = <<>> /\ AuthIdle /\ ScanIdle /\ MutexIdle /\ DecInit

DecoderNext ==
    (write_frame \/ write_after_done)
      /\ UNCHANGED <<sessionVars, issued, authVars, scanVars, mutexVars>>

DecoderSpec == DecoderInit /\ [][DecoderNext]_vars

Init ==
    SessionInit /\ issued = <<>> /\ AuthIdle /\ ScanIdle /\ MutexIdle /\ DecIdle

Next == SessionNext /\ UNCHANGED <<authVars, scanVars, mutexVars, decVars>>

Spec == Init /\ [][Next]_vars

AuthSpecInit ==
    SessionLive /\ issued = <<>> /\ AuthInit /\ ScanIdle /\ MutexIdle /\ DecIdle

AuthSpecNext ==
    AuthNext /\ UNCHANGED <<sessionVars, issued, scanVars, mutexVars, decVars>>

AuthSpec == AuthSpecInit /\ [][AuthSpecNext]_vars

ScanSpecInit ==
    SessionLive /\ issued = <<>> /\ AuthIdle /\ ScanIdle /\ MutexIdle /\ DecIdle

ScanSpecNext ==
    ScanNext /\ UNCHANGED <<sessionVars, authVars, mutexVars, decVars>>

ScanSpec == ScanSpecInit /\ [][ScanSpecNext]_vars

\* the parameters a backend may report for the frame read_full_frame reads
FullFrameParams ==
    [last_frame : BOOLEAN,
     bytes_per_line : 1..MaxFullBytesPerLine,
     lines : {<<>>} \cup {<<n>> : n \in 1..MaxLines}]

\* next_frame has just returned Ok(Some(frame)): the device is scanning a
\* frame of some number of bytes and nothing was read yet
FreshFrame ==
    /\ holder = "frame"
    /\ done = FALSE
    /\ started = FALSE
    /\ params \in FullFrameParams
    /\ closes = 0
    /\ cancelled = FALSE
    /\ used = {}
    /\ op = "next_frame"
    /\ ret = "Ok(Some)"
    /\ issued = <<"start", "set_io_mode", "get_parameters">>
    /\ answers = <<"Good", "Good", "Good">>
    /\ dev_state = "scanning"
    /\ avail \in 0..MaxFullFrameBytes
    /\ frPc = "idle"
    /\ buf_left = 0
    /\ vec_len0 = 0
    /\ vec_len = 0
    /\ vec_cap = 0
    /\ try_lines = 0
    /\ received = 0
    /\ vec_tail = <<>>
    /\ cancels = 0
    /\ frame_hist = "fresh"

FrameSpecInit ==
    SessionLive /\ AuthIdle /\ FreshFrame /\ MutexIdle /\ DecIdle

\* what a step of the frame reader leaves alone
frameRest == <<sessionVars, authVars, mutexVars, decVars>>

FrameNext ==
    \/ read_full_frame
    \/ read_full_frame_known
    \/ read_full_frame_unknown

FrameSpecNext == FrameNext /\ UNCHANGED frameRest

\* read_full_frame runs its loops in the calling thread until it returns
FrameSpec ==
    /\ FrameSpecInit
    /\ [][FrameSpecNext]_vars
    /\ WF_vars(read_full_frame_known /\ UNCHANGED frameRest)
    /\ WF_vars(read_full_frame_unknown /\ UNCHANGED frameRest)

MutexSpecInit ==
    SessionLive /\ issued = <<>> /\ AuthIdle /\ ScanIdle /\ MutexIdle /\ DecIdle

\* what a step of a thread using its device leaves alone
mutexRest == <<sessionVars, issued, authVars, scanVars, decVars>>

MutexSpecNext == MutexNext /\ UNCHANGED mutexRest

\* a thread that has called cancel keeps running; whether a blocking
\* underlying call of another thread ever returns is up to the backend
MutexSpec ==
    /\ MutexSpecInit
    /\ [][MutexSpecNext]_vars
    /\ \A t \in Users :
         WF_vars(top[t] = "cancel" /\ tpc[t] # "idle" /\ UserStep(t)
                   /\ UNCHANGED mutexRest)

(***************************************************************************)
(* Session claims                                                          *)
(***************************************************************************)

\* positions at which a thread has won the flag and not yet released it
Holding == {"store", "sane_init", "rollback", "rollback2", "live", "drop",
            "drop2"}

Holders == {t \in Threads : pc[t] \in Holding}

SingletonInv ==
    /\ Cardinality(Holders) = (IF HAS_INSTANCE THEN 1 ELSE 0)
    /\ Cardinality({t \in Threads : pc[t] = "live"}) <= 1

CasOutcome ==
    \A t \in Threads :
        (pc[t] = "cas" /\ pc'[t] # "cas") =>
            IF HAS_INSTANCE
              THEN /\ result'[t] = "panic"
                   /\ pc'[t] = "idle"
                   /\ issued' = <<>>
                   /\ UNCHANGED <<HAS_INSTANCE, auth_handler, sane_state>>
              ELSE /\ pc'[t] = "store"
                   /\ HAS_INSTANCE'

\* C1: at most one thread holds the singleton flag (or a live session) at any
\* time; an init whose compare-and-swap finds the flag set panics without
\* calling sane_init, and a compare-and-swap that finds it clear wins it.
C1_Singleton == []SingletonInv /\ [][CasOutcome]_vars

\* one thread holds a live session while another init was rejected
C1_Witness ==
    \E t, u \in Threads :
        /\ t # u
        /\ pc[t] = "live"
        /\ pc[u] = "idle"
        /\ result[u] = "panic"

DropReleases ==
    \A t \in Threads :
        (pc[t] \in {"drop", "drop2"} /\ pc'[t] = "idle") =>
            /\ exit_calls = 1
            /\ sane_state = "uninit"
            /\ HAS_INSTANCE
            /\ ~HAS_INSTANCE'

InitAfterExit ==
    (issued' = <<"sane_init">>) => sane_state = "uninit"

\* C2: a drop issues sane_exit exactly once and releases the flag only
\* afterwards; sane_init is never called while the library is still
\* initialised by a previous session.
C2_DropExitsThenReleases ==
    [](exit_calls <= 1) /\ [][DropReleases /\ InitAfterExit]_vars

\* a later init has won the flag after a session was dropped
C2_Witness ==
    /\ exit_calls = 1
    /\ \E t \in Threads : pc[t] = "sane_init"

InitErrors == InitStatuses \ {"Good"}

RollbackReturn ==
    \A t \in Threads :
        /\ (pc[t] \in {"rollback", "rollback2"} /\ pc'[t] # pc[t]) =>
              /\ result'[t] \in InitErrors
              /\ (HAS_INSTANCE /\ ~HAS_INSTANCE') => auth_handler = None
        /\ (pc[t] \in {"rollback", "rollback2"} /\ pc'[t] = "idle") =>
              /\ ~HAS_INSTANCE'
              /\ auth_handler' = None
        /\ (pc[t] = "sane_init" /\ pc'[t] # "sane_init") =>
              IF result'[t] = "Ok" THEN pc'[t] = "live"
              ELSE result'[t] \in InitErrors /\ pc'[t] = "rollback"

\* C3: when sane_init fails, init returns that error with the handler slot
\* cleared and the flag reset, the handler being cleared before the flag is
\* released.
C3_ErrorRollback == [][RollbackReturn]_vars

\* an init with a handler has failed and returned; the flag is free again
C3_Witness ==
    \E t \in Threads :
        /\ pc[t] = "idle"
        /\ result[t] \in InitErrors
        /\ authorize[t] # None
        /\ ~HAS_INSTANCE

\* C4: after a session is dropped the handler slot holds no handler.
C4_HandlerClearedOnDrop ==
    [][\A t \in Threads :
          (pc[t] \in {"drop", "drop2"} /\ pc'[t] = "idle") =>
              auth_handler' = None]_vars

HandlerStoredBeforeInit ==
    \A t \in Threads :
        (pc[t] = "sane_init" /\ authorize[t] # None) =>
            /\ auth_handler = authorize[t]
            /\ HAS_INSTANCE
            /\ sane_state = "uninit"

TrampolineInInit ==
    \A t \in Threads :
        (pc[t] = "sane_init" /\ pc'[t] # "sane_init" /\ authorize[t] # None
           /\ trampoline' # "not_called") =>
            trampoline' = authorize[t]

\* C5: an init that supplies a handler has written it to the slot, with the
\* flag held, before sane_init is called; a trampoline call made during
\* sane_init invokes that handler.
C5_HandlerBeforeInit ==
    []HandlerStoredBeforeInit /\ [][TrampolineInInit]_vars

\* the trampoline ran a supplied handler during sane_init
C5_Witness ==
    /\ issued = <<"sane_init">>
    /\ trampoline \in Handlers

(***************************************************************************)
(* Authorizer claims                                                       *)
(***************************************************************************)

\* buf holds the bytes of str followed by NUL
HoldsCString(buf, str) ==
    /\ Len(buf) >= Len(str) + 1
    /\ \A i \in 1..Len(str) : buf[i] = <<str[i]>>
    /\ buf[Len(str) + 1] = <<0>>

\* C6: for Latin-1 credentials that fit their buffers with the terminator,
\* provide_credentials succeeds and each buffer holds the string's bytes
\* immediately followed by NUL.
C6_CredentialsWritten ==
    (/\ authPc = "returned"
     /\ Latin1(username) /\ Len(username) + 1 <= Len(userBuf)
     /\ Latin1(password) /\ Len(password) + 1 <= Len(passBuf))
    => /\ authResult = AuthOk
       /\ HoldsCString(userBuf, username)
       /\ HoldsCString(passBuf, password)

\* C7: a Latin-1 username is rejected with TooLong exactly when it is longer
\* than max_username_len(); likewise the password once the username was
\* accepted.
C7_TooLongExactly ==
    (authPc = "returned" /\ Latin1(username)) =>
        /\ (authResult = [field |-> "Username", error |-> "TooLong"])
              <=> (Len(username) > max_username_len(userBuf))
        /\ (Latin1(password) /\ authResult.field # "Username") =>
              ((authResult = [field |-> "Password", error |-> "TooLong"])
                 <=> (Len(password) > max_password_len(passBuf)))

(***************************************************************************)
(* Device handle and scan claims                                           *)
(***************************************************************************)

SeqRange(q) == {q[i] : i \in 1..Len(q)}

CloseOnceInv == closes = (IF holder = "closed" THEN 1 ELSE 0)

CloseOnlyAtDrop ==
    /\ (op' \in {"map_sane", "scan_blocking", "next_frame", "cancel",
                 "into_inner"})
         => (closes' = closes /\ "close" \notin SeqRange(issued'))
    /\ (closes' # closes)
         => /\ closes' = closes + 1
            /\ holder \in {"device", "scan"}
            /\ holder' = "closed"
            /\ issued' = <<"close">>

\* C8: the pointer of a connected handle is closed exactly once, by the final
\* drop; map_sane, scan_blocking, next_frame, cancel and into_inner issue no
\* close.
C8_CloseOnce == []CloseOnceInv /\ [][CloseOnlyAtDrop]_vars

\* a handle that went through map_sane and into_inner has been dropped
C8_Witness ==
    /\ holder = "closed"
    /\ closes = 1
    /\ used = {"map_sane", "into_inner"}

AfterCancel ==
    (cancelled /\ cancelled') =>
        /\ "start" \notin SeqRange(issued')
        /\ "read" \notin SeqRange(issued')
        /\ (op' = "next_frame") => (ret' = "Ok(None)")

\* C9: once cancel has been called on a scan reader its done flag is set,
\* every later next_frame returns Ok(None), and no start or read is issued
\* through that scan reader.
C9_NoCallsAfterCancel ==
    [](cancelled => (done /\ holder = "scan")) /\ [][AfterCancel]_vars

\* next_frame was called on a cancelled scan reader
C9_Witness ==
    /\ cancelled
    /\ op = "next_frame"
    /\ ret = "Ok(None)"

\* C10: dropping a ScanReader whose done flag is false issues the underlying
\* cancel before the close.
C10_DropCancels ==
    [][(holder = "scan" /\ ~done /\ holder' = "closed") =>
          /\ Len(issued') >= 2
          /\ issued'[1] = "cancel"
          /\ issued'[Len(issued')] = "close"]_vars

CancelStep ==
    (op' \in {"cancel", "into_inner"}) =>
        /\ done'
        /\ issued' = IF done THEN <<>> ELSE <<"cancel">>

\* C11: over any sequence of cancel and into_inner calls on one scan reader
\* the underlying cancel is issued at most once, by the first call made while
\* done is false, and done is true after each of these calls.
C11_CancelIdempotent ==
    [](cancels <= 1) /\ [][CancelStep]_vars

\* a cancel was followed by into_inner on the same reader: one underlying
\* cancel in all
C11_Witness ==
    /\ op = "into_inner"
    /\ issued = <<>>
    /\ cancels = 1
    /\ done

NextFrameStartFails ==
    (op' = "next_frame" /\ answers' # <<>> /\ answers'[1] # "Good") =>
        /\ ret' = answers'[1]
        /\ issued' = <<"start">>
        /\ ~done'
        /\ holder' = "scan"

NextFrameStartsWhenNotDone ==
    (holder = "scan" /\ ~done /\ op' = "next_frame") =>
        (issued' # <<>> /\ issued'[1] = "start")

\* C12: when the underlying start fails, next_frame returns that error,
\* issues neither set_io_mode nor get_parameters and leaves done false, so a
\* later next_frame calls start again.
C12_StartFailure ==
    [][NextFrameStartFails /\ NextFrameStartsWhenNotDone]_vars

\* next_frame returned the error of start; the reader is still usable
C12_Witness ==
    /\ op = "next_frame"
    /\ answers = <<"NoDocs">>
    /\ ret = "NoDocs"
    /\ holder = "scan"
    /\ ~done

NextFrameIoMode ==
    (op' = "next_frame" /\ Len(answers') >= 2) =>
        /\ (answers'[2] = "Unsupported") =>
              /\ issued' = <<"start", "set_io_mode", "get_parameters">>
              /\ (answers'[3] = "Good") =>
                    (ret' = "Ok(Some)" /\ holder' = "frame")
        /\ (answers'[2] \notin {"Good", "Unsupported"}) =>
              /\ ret' = answers'[2]
              /\ issued' = <<"start", "set_io_mode">>
              /\ holder' = "scan"

\* C13: a set_io_mode result of Unsupported is ignored, next_frame goes on to
\* get_parameters and yields a frame reader; any other set_io_mode error is
\* returned.
C13_UnsupportedIgnored ==
    [][NextFrameIoMode]_vars

\* the backend does not support set_io_mode and next_frame yielded a frame
C13_Witness ==
    /\ op = "next_frame"
    /\ answers = <<"Good", "Unsupported", "Good">>
    /\ ret = "Ok(Some)"
    /\ holder = "frame"

ReadSetsDone ==
    (op' = "read_frame") =>
        (done' = \/ done
                 \/ answers'[1] = "Cancelled"
                 \/ (answers'[1] = "Eof" /\ params.last_frame))

\* C14: a read on a frame reader that fails with Cancelled sets the done flag
\* of the scan for every value of last_frame, one that fails with Eof sets it
\* exactly when last_frame is true, and no other outcome of a read sets it.
C14_ReadSetsDone ==
    [][ReadSetsDone]_vars

LastFrameGone ==
    (holder = "frame" /\ params.last_frame /\ holder' = "scan") => done'

NextFrameAfterDone ==
    (holder = "scan" /\ done /\ op' = "next_frame") =>
        (ret' = "Ok(None)" /\ issued' = <<>>)

\* C15: once the frame reader of a frame whose last_frame flag is true is
\* gone, however it was used (never read, partially read, read up to Eof,
\* read_full_frame), done is true and the next next_frame returns Ok(None)
\* without a start.
C15_LastFrameEndsScan ==
    [][LastFrameGone /\ NextFrameAfterDone]_vars

StartBetweenFrames ==
    ("start" \in SeqRange(issued')) =>
        (dev_state \in {"idle", "eof", "cancelled"})

\* C16: after a start, start is issued again only after the reads of the
\* current frame reached Eof or the scan was cancelled; next_frame never
\* restarts the device in the middle of a partially read frame.
C16_ScanProtocol ==
    [][StartBetweenFrames]_vars

NoReadAfterEnd ==
    (holder = "frame" /\ frame_hist = "ended") =>
        ("read" \notin SeqRange(issued'))

\* C17: once a read on a frame reader has failed with Eof or Cancelled, no
\* further underlying read is issued through that frame reader.
C17_NoReadAfterEof ==
    [][NoReadAfterEnd]_vars

FullFrameAfterRead ==
    (op' = "read_full_frame" /\ holder = "frame" /\ frPc = "idle") =>
        IF frame_hist # "fresh"
          THEN ret' = "panic" /\ issued' = <<>> /\ frPc' = "idle"
          ELSE ret' # "panic"

\* C18: read_full_frame on a frame reader on which a read (read_frame or
\* read_full_frame) has already been attempted, whatever its result, panics
\* before it issues any underlying read; on a fresh frame reader it does not
\* panic for that reason.
C18_FullFrameNeedsFresh ==
    /\ []((holder = "frame") => (started <=> frame_hist # "fresh"))
    /\ [][FullFrameAfterRead]_vars

\* read_full_frame panicked on a frame reader whose earlier read had failed
C18_Witness ==
    /\ op = "read_full_frame"
    /\ ret = "panic"
    /\ issued = <<>>
    /\ frame_hist = "ended"
    /\ frPc = "idle"

KnownReturn ==
    (op' = "read_full_frame" /\ frPc = "known" /\ ret' = "Ok") =>
        LET frame_bytes == params.bytes_per_line * params.lines[1]
        IN /\ received = frame_bytes
           /\ vec_len' = vec_len0 + frame_bytes
           /\ vec_tail' = Chunk(0, frame_bytes)
           /\ issued' = <<>>

NoReadAfterLastByte ==
    (frPc = "known"
       /\ received = params.bytes_per_line * params.lines[1]) =>
        ("read" \notin SeqRange(issued'))

\* C19: when lines is known, every successful read_full_frame appends exactly
\* bytes_per_line * lines bytes, however the backend splits the frame into
\* non-empty chunks, and issues no underlying read after the last byte has
\* been received.
C19_KnownLines ==
    [][KnownReturn /\ NoReadAfterLastByte]_vars

\* a frame of four bytes arrived in more than one chunk and was appended
C19_Witness ==
    /\ op = "read_full_frame"
    /\ ret = "Ok"
    /\ params.lines = <<2>>
    /\ params.bytes_per_line = 2
    /\ vec_len = vec_len0 + 4
    /\ vec_tail = <<1, 2, 3, 4>>
    /\ answers = <<>>

UnknownReturn ==
    (op' = "read_full_frame" /\ frPc = "unknown" /\ frPc' = "idle") =>
        /\ (ret' = "Ok") <=> (answers' = <<"Eof">>)
        /\ (ret' = "Ok") =>
              /\ avail' = 0
              /\ vec_len' = vec_len0 + received'
              /\ vec_tail' = Chunk(0, received')

\* C20: when lines is None and the backend delivers finitely many non-empty
\* chunks and then Eof, read_full_frame terminates, returns Ok(()) and has
\* appended exactly the delivered bytes in their order.
C20_UnknownLines ==
    /\ [][UnknownReturn]_vars
    /\ ((frPc = "unknown") ~> (frPc = "idle"))

\* a frame of unknown height arrived in several chunks and was appended
C20_Witness ==
    /\ op = "read_full_frame"
    /\ ret = "Ok"
    /\ params.lines = <<>>
    /\ answers = <<"Eof">>
    /\ received = MaxFullFrameBytes
    /\ vec_len = vec_len0 + MaxFullFrameBytes
    /\ try_lines < 32

CancelOutsideLock ==
    \A t \in Users :
        (tin'[t] = "cancel" /\ tin[t] # "cancel") =>
            /\ tpc[t] = "idle"
            /\ mtx_owner # t
            /\ mtx_owner' = mtx_owner

\* C21: ScanReader::cancel issues the underlying cancel without going
\* through the session anchor: with a mutex anchor it never waits for the
\* lock and completes even while another thread holds the lock inside a
\* blocking underlying call.
C21_CancelBypassesAnchor ==
    /\ [][CancelOutsideLock]_vars
    /\ \A t \in Users :
         (top[t] = "cancel" /\ tpc[t] # "idle") ~> (tpc[t] = "idle")

\* thread 2 is inside the underlying cancel while thread 1 holds the lock
\* inside a read
C21_Witness ==
    /\ tin[2] = "cancel"
    /\ tin[1] = "read"
    /\ mtx_owner = 1

\* C22: every underlying call other than cancel is issued inside a with_sane
\* closure of the anchor, so with a shared mutex anchor no two such calls
\* overlap in time.
C22_CallsSerialized ==
    /\ \A t \in Users : (tin[t] \notin {"none", "cancel"}) => (mtx_owner = t)
    /\ \A t, u \in Users :
         (t # u /\ tin[t] \notin {"none", "cancel"}) =>
             (tin[u] \in {"none", "cancel"})

\* thread 1 is inside a read while thread 2 waits for the lock to start
C22_Witness ==
    /\ tin[1] = "read"
    /\ tpc[2] = "locking"
    /\ top[2] = "next_frame"

\* a write to a decoder that is done returns AlreadyDone and changes nothing
WriteAfterDone ==
    is_done(decoder) => decoder' = decoder /\ dec_ret' = "AlreadyDone"

\* C23: once the decoder is in Done, every write, whatever the frame bytes
\* and the parameters (invalid ones included), fails with AlreadyDone and
\* leaves the buffer, the width, the height and the format as they were.
C23_AlreadyDone ==
    /\ [](decoder.state.tag = "Done" =>
            \A frame \in DecFrames, fparams \in DecParams :
               write(decoder, frame, fparams)
                 = Returned(decoder, "AlreadyDone"))
    /\ [][WriteAfterDone]_vars

C23_Witness ==
    /\ decoder.state.tag = "Done"
    /\ dec_ret = "AlreadyDone"
    /\ Len(decoder.buffer) > 1

\* C24: write never panics: for every decoder state and every frame and
\* parameters (bytes_per_line = 0, a pixel row longer than bytes_per_line
\* and banded frames included) it returns Ok or one of the five
\* FrameDecodeError values.
C24_NeverPanics ==
    dec_ret \in {"none", "Ok", "AlreadyDone", "DuplicateChannel",
                 "UnexpectedParameters", "UnsupportedParameters",
                 "InvalidParameters"}

\* an interleaved rgb frame of w * h pixels without padding: samples 10, 20,
\* 30, ...
Interleaved(w, h, bpc) == [k \in 1..(w * h * 3 * bpc) |-> 10 * k]

\* the band of one channel (0 red, 1 green, 2 blue) carrying the same samples
Band(c, w, h, bpc) ==
    [k \in 1..(w * h * bpc) |->
        Interleaved(w, h, bpc)[((k - 1) \div bpc) * 3 * bpc + c * bpc
                                 + ((k - 1) % bpc) + 1]]

ChannelName(c) == <<"Red", "Green", "Blue">>[c + 1]

\* writing the band of channel c
WriteBand(dec, c, w, h, bpc) ==
    write(dec, [huge |-> FALSE, bytes |-> Band(c, w, h, bpc)],
          [format |-> ChannelName(c), depth |-> 8 * bpc,
           bytes_per_line |-> w * bpc, pixels_per_line |-> w,
           lines |-> <<h>>])

\* writing the interleaved frame
WriteInterleaved(dec, w, h, bpc) ==
    write(dec, [huge |-> FALSE, bytes |-> Interleaved(w, h, bpc)],
          [format |-> "Rgb", depth |-> 8 * bpc,
           bytes_per_line |-> w * 3 * bpc, pixels_per_line |-> w,
           lines |-> <<h>>])

BandOrders ==
    {<<0, 1, 2>>, <<0, 2, 1>>, <<1, 0, 2>>, <<1, 2, 0>>, <<2, 0, 1>>,
     <<2, 1, 0>>}

\* C25: three banded frames Red, Green, Blue of equal geometry and depth,
\* written to a fresh decoder in any of the six orders, end in Done with the
\* same Rgb image (data, width, height) as one interleaved Rgb frame with
\* the same samples; Green [20], Blue [30], Red [10] gives [10, 20, 30].
C25_BandedRoundTrip ==
    decoder.state.tag = "Initial" =>
      \A w \in 1..2, h \in 1..2, bpc \in 1..2, order \in BandOrders :
         LET r1 == WriteBand(decoder, order[1], w, h, bpc)
             r2 == WriteBand(r1.dec, order[2], w, h, bpc)
             r3 == WriteBand(r2.dec, order[3], w, h, bpc)
             one == WriteInterleaved(decoder, w, h, bpc)
         IN /\ r1.ret = "Ok" /\ r2.ret = "Ok" /\ r3.ret = "Ok"
            /\ one.ret = "Ok"
            /\ r3.dec.state = Done("Rgb", bpc)
            /\ r3.dec.state = one.dec.state
            /\ r3.dec.buffer = one.dec.buffer
            /\ r3.dec.width = one.dec.width
            /\ r3.dec.height = one.dec.height
            /\ (w = 1 /\ h = 1 /\ bpc = 1) =>
                  r3.dec.buffer = decoder.buffer \o <<10, 20, 30>>

\* a frame whose length is a multiple of a non-zero bytes_per_line, with
\* lines unknown or equal to the number of rows, and a non-zero depth
WellFormed(frame, fparams) ==
    /\ ~frame.huge
    /\ fparams.depth # 0
    /\ fparams.bytes_per_line # 0
    /\ Len(frame.bytes) % fparams.bytes_per_line = 0
    /\ \/ fparams.lines = <<>>
       \/ fparams.lines = <<Len(frame.bytes) \div fparams.bytes_per_line>>

\* C26: for a Gray frame of a depth that is a multiple of 8, or an
\* interleaved Rgb frame, whose bytes_per_line exceeds pixels_per_line *
\* bytes_per_pixel, the decoded data has width * height * bytes_per_pixel
\* bytes: the first pixels_per_line * bytes_per_pixel bytes of each row, in
\* row order.
C26_PaddingStripped ==
    decoder.state.tag = "Initial" =>
      \A frame \in DecFrames, fparams \in DecParams :
         LET bpp == IF fparams.format = "Rgb"
                      THEN 3 * (fparams.depth \div 8)
                      ELSE fparams.depth \div 8
             row == fparams.pixels_per_line * bpp
             r == write(decoder, frame, fparams)
             old == Len(decoder.buffer)
         IN (/\ WellFormed(frame, fparams)
             /\ fparams.format \in {"Gray", "Rgb"}
             /\ fparams.depth % 8 = 0
             /\ fparams.bytes_per_line > row)
            => /\ r.ret = "Ok"
               /\ r.dec.state.tag = "Done"
               /\ Len(r.dec.buffer)
                     = old + r.dec.width * r.dec.height * bpp
               /\ r.dec.width = fparams.pixels_per_line
               /\ r.dec.height
                     = Len(frame.bytes) \div fparams.bytes_per_line
               /\ SubSeq(r.dec.buffer, 1, old) = decoder.buffer
               /\ \A l \in 1..r.dec.height, k \in 1..row :
                     r.dec.buffer[old + (l - 1) * row + k]
                       = frame.bytes[(l - 1) * fparams.bytes_per_line + k]

\* two rows of one gray pixel and one byte of padding were decoded
C26_Witness ==
    /\ decoder.state = Done("Gray", 1)
    /\ decoder.width = 1
    /\ decoder.height = 2
    /\ decoder.buffer = <<FrameByte(1), FrameByte(3)>>
    /\ dec_ret = "Ok"

\* len is a multiple of n
MultipleOf(len, n) == \E q \in 0..len : q * n = len

\* C27: on a decoder that is not Done, write fails with InvalidParameters
\* whenever depth is 0, or the frame length does not fit 32 bits or is not a
\* multiple of bytes_per_line, or lines is Some and differs from frame_len /
\* bytes_per_line, whatever the format and in every state that is not Done.
C27_InvalidParameters ==
    decoder.state.tag # "Done" =>
      \A frame \in DecFrames, fparams \in DecParams :
         (\/ fparams.depth = 0
          \/ frame.huge
          \/ ~MultipleOf(Len(frame.bytes), fparams.bytes_per_line)
          \/ /\ fparams.lines # <<>>
             /\ fparams.bytes_per_line # 0
             /\ fparams.lines[1]
                  # Len(frame.bytes) \div fparams.bytes_per_line)
         => write(decoder, frame, fparams)
              = Returned(decoder, "InvalidParameters")

Bands == {"Red", "Green", "Blue"}

\* the band differs from the first one in width, height or bytes per channel
BandMismatch(frame, fparams) ==
    \/ fparams.pixels_per_line # decoder.width
    \/ /\ fparams.bytes_per_line # 0
       /\ Len(frame.bytes) \div fparams.bytes_per_line # decoder.height
    \/ fparams.depth % 8 # 0
    \/ fparams.depth \div 8 # decoder.state.bytes

\* the band was received before
BandReceived(band) ==
    \/ band = "Red" /\ decoder.state.has_red
    \/ band = "Green" /\ decoder.state.has_green
    \/ band = "Blue" /\ decoder.state.has_blue

\* what C28 says of one band written in RgbParts
BandRejected(frame, fparams) ==
    /\ BandReceived(fparams.format) =>
          write(decoder, frame, fparams)
            = Returned(decoder, "DuplicateChannel")
    /\ (~BandReceived(fparams.format) /\ BandMismatch(frame, fparams)) =>
          write(decoder, frame, fparams)
            = Returned(decoder, "UnexpectedParameters")

BandRejectedStep ==
    (decoder.state.tag = "RgbParts"
       /\ dec_ret' \in {"DuplicateChannel", "UnexpectedParameters"})
      => decoder' = decoder

Bitmap(frame, fparams) ==
    /\ WellFormed(frame, fparams)
    /\ fparams.format = "Gray"
    /\ fparams.depth = 1
    /\ fparams.pixels_per_line % 8 = 0
    /\ fparams.pixels_per_line \div 8 <= fparams.bytes_per_line

\* C29: with packed output, a Gray frame of depth 1 whose pixels_per_line is
\* a multiple of 8 is decoded to the bitwise complement of the first
\* pixels_per_line / 8 bytes of each row; the result is Done(BlackAndWhite)
\* with width * height / 8 bytes.
C29_PackedComplement ==
    (decoder.state.tag = "Initial" /\ ~decoder.black_and_white_as_bytes) =>
      \A frame \in DecFrames, fparams \in DecParams :
         LET row == fparams.pixels_per_line \div 8
             r == write(decoder, frame, fparams)
             old == Len(decoder.buffer)
         IN Bitmap(frame, fparams)
            => /\ r.ret = "Ok"
               /\ r.dec.state = Done("BlackAndWhite", 0)
               /\ r.dec.width = fparams.pixels_per_line
               /\ r.dec.height
                     = Len(frame.bytes) \div fparams.bytes_per_line
               /\ Len(r.dec.buffer)
                     = old + (r.dec.width * r.dec.height) \div 8
               /\ SubSeq(r.dec.buffer, 1, old) = decoder.buffer
               /\ \A l \in 1..r.dec.height, k \in 1..row :
                     r.dec.buffer[old + (l - 1) * row + k]
                       = 255 - frame.bytes[(l - 1) * fparams.bytes_per_line
                                             + k]

\* two rows 10101010 and 11110000 were decoded to 01010101 and 00001111
C29_Witness ==
    /\ decoder.state = Done("BlackAndWhite", 0)
    /\ ~decoder.black_and_white_as_bytes
    /\ decoder.width = 8
    /\ decoder.height = 2
    /\ decoder.buffer = <<85, 15>>
    /\ dec_ret = "Ok"

\* bit j (0 the most significant) of a byte
BitOf(byte, j) == (byte \div (2 ^ (7 - j))) % 2

\* C30: with expanded black-and-white output every pixel is one byte, most
\* significant bit first: 1 for a set input bit (a black pixel), 0 for a
\* clear one.
C30_ExpandedSetBitIsOne ==
    (decoder.state.tag = "Initial" /\ decoder.black_and_white_as_bytes) =>
      \A frame \in DecFrames, fparams \in DecParams :
         LET row == fparams.pixels_per_line \div 8
             r == write(decoder, frame, fparams)
             old == Len(decoder.buffer)
         IN Bitmap(frame, fparams)
            => /\ r.ret = "Ok"
               /\ r.dec.state = Done("BlackAndWhite", 0)
               /\ Len(r.dec.buffer) = old + r.dec.width * r.dec.height
               /\ \A l \in 1..r.dec.height, k \in 1..row, j \in 0..7 :
                     r.dec.buffer[old + ((l - 1) * row + k - 1) * 8 + j + 1]
                       = BitOf(frame.bytes[(l - 1) * fparams.bytes_per_line
                                             + k], j)

\* the decoder after decode_black_and_white_as_bytes(do_it)
WithOutput(dec, do_it) == [dec EXCEPT !.black_and_white_as_bytes = do_it]

\* C31: the two black-and-white outputs agree: for the same depth-1 frame,
\* byte k of the expanded output is bit k (most significant bit first) of
\* the packed output, which is 1 exactly where the input bit is clear.
C31_OutputsAgree ==
    decoder.state.tag = "Initial" =>
      \A frame \in DecFrames, fparams \in DecParams :
         LET packed == write(WithOutput(decoder, FALSE), frame, fparams)
             expanded == write(WithOutput(decoder, TRUE), frame, fparams)
             old == Len(decoder.buffer)
             row == fparams.pixels_per_line \div 8
             height == Len(frame.bytes) \div fparams.bytes_per_line
         IN Bitmap(frame, fparams)
            => /\ packed.ret = "Ok" /\ expanded.ret = "Ok"
               /\ packed.dec.state = expanded.dec.state
               /\ Len(packed.dec.buffer) = old + row * height
               /\ Len(expanded.dec.buffer) = old + 8 * row * height
               /\ \A k \in 1..(8 * row * height) :
                     /\ expanded.dec.buffer[old + k]
                          = BitOf(packed.dec.buffer[old + ((k - 1) \div 8)
                                                      + 1], (k - 1) % 8)
                     /\ expanded.dec.buffer[old + k]
                          = 1 - BitOf(
                              frame.bytes[(((k - 1) \div 8) \div row)
                                            * fparams.bytes_per_line
                                          + (((k - 1) \div 8) % row) + 1],
                              (k - 1) % 8)

\* 10101010 and 11110000 were expanded behind the byte the buffer held
C31_Witness ==
    /\ decoder.state = Done("BlackAndWhite", 0)
    /\ decoder.black_and_white_as_bytes
    /\ decoder.buffer
         = <<7, 0, 1, 0, 1, 0, 1, 0, 1, 0, 0, 0, 0, 1, 1, 1, 1>>
    /\ dec_ret = "Ok"

\* the trampoline runs the handler of the init call that made the session
TrampolineRunsOwnHandler ==
    \A t \in Threads :
        (pc[t] \in {"sane_init", "live"} /\ trampoline' # "not_called") =>
            trampoline' = (IF authorize[t] = None THEN "NUL" ELSE authorize[t])

\* C32: whenever the authorization trampoline runs, the handler it invokes
\* is the one passed to the init call of the live session; a session
\* initialised without a handler never invokes a handler left over from an
\* earlier session.
C32_NoStaleHandler == [][TrampolineRunsOwnHandler]_vars

\* C33: no operation calls with_sane on its anchor while it is inside a
\* with_sane closure of the same anchor, so with a mutex anchor no thread
\* waits for a lock it already holds.
C33_NoNestedWithSane ==
    \A t \in Users : tpc[t] = "locking" => mtx_owner # t

\* next_frame returned an error after the underlying start had succeeded
NextFrameFailedAfterStart ==
    /\ op' = "next_frame"
    /\ Len(answers') >= 2
    /\ answers'[1] = "Good"
    /\ ret' \notin {"Ok(Some)", "Ok(None)"}

\* C34: when next_frame returns an error after a successful start (a
\* set_io_mode error other than Unsupported, or a get_parameters error), the
\* underlying cancel is issued before the error is returned, so the device
\* is not left scanning.
C34_ErrorCancelsStart ==
    [][NextFrameFailedAfterStart =>
          /\ issued'[Len(issued')] = "cancel"
          /\ dev_state' # "scanning"]_vars

\* read_full_frame returned the error of an underlying read
FullFrameFailed ==
    /\ op' = "read_full_frame"
    /\ answers' # <<>>
    /\ answers'[1] \notin {"Good", "Eof"}
    /\ ret' = answers'[1]

\* C35: after read_full_frame has returned an error (a status other than
\* Eof from the underlying read) the scan can still be cancelled: the next
\* ScanReader::cancel or into_inner issues the underlying cancel, also when
\* the frame had last_frame = true.
C35_CancellableAfterError ==
    [][FullFrameFailed =>
          /\ ~done'
          /\ ScanReader_cancel(done').issued = <<"cancel">>]_vars

\* an init call that finds the flag set panics without touching anything
RejectedInit ==
    \A t \in Threads :
        (pc[t] = "cas" /\ HAS_INSTANCE /\ pc'[t] # "cas") =>
            /\ pc'[t] = "idle"
            /\ result'[t] = "panic"
            /\ HAS_INSTANCE'
            /\ auth_handler' = auth_handler
            /\ sane_state' = sane_state
            /\ exit_calls' = exit_calls
            /\ issued' = <<>>
            /\ trampoline' = "not_called"

\* C36: an init call that is rejected because a session is already live
\* changes nothing: the flag stays set and the handler slot keeps the
\* handler of the live session; the handler of the rejected call is never
\* stored.
C36_RejectedInitChangesNothing == [][RejectedInit]_vars

\* an init with handler h2 was rejected while the session made with h1 is
\* live
C36_Witness ==
    \E t, u \in Threads :
        /\ pc[t] = "idle" /\ result[t] = "panic" /\ authorize[t] = "h2"
        /\ pc[u] = "live" /\ authorize[u] = "h1"
        /\ auth_handler = "h1"
        /\ HAS_INSTANCE

\* C37: the done flag of a ScanReader is monotonic: over any sequence of
\* next_frame, read_frame, read_full_frame, cancel and into_inner, once it
\* is true it never becomes false again.
C37_DoneMonotonic ==
    [][(holder \in {"scan", "frame"} /\ done) => done']_vars

\* a read returned data on a reader that was already done
C37_Witness ==
    /\ holder = "frame"
    /\ done
    /\ op = "read_frame"
    /\ ret = "Ok"

\* C38: in the loop of read_full_frame for an unknown number of lines the
\* estimate try_lines, 32 at first, halved after a read that filled less
\* than half of the reservation and incremented otherwise, never reaches 0,
\* so every underlying read is offered a reservation of at least
\* bytes_per_line bytes.
C38_TryLinesPositive ==
    frPc = "unknown" =>
        /\ try_lines >= 1
        /\ params.bytes_per_line * try_lines >= params.bytes_per_line

\* the values of FrameDecodeError
FrameDecodeErrors ==
    {"AlreadyDone", "InvalidParameters", "UnsupportedParameters",
     "UnexpectedParameters", "DuplicateChannel"}

\* a write has just returned a FrameDecodeError
WriteFailed == dec_ret' \in FrameDecodeErrors

\* C39: a write that returns any FrameDecodeError leaves the decoder
\* unchanged: its state (with the flags and bytes_per_channel of RgbParts),
\* its width, its height and the length of its buffer are what they were
\* before the call.
C39_ErrorLeavesDecoder ==
    [][WriteFailed =>
         /\ decoder'.state = decoder.state
         /\ decoder'.width = decoder.width
         /\ decoder'.height = decoder.height
         /\ Len(decoder'.buffer) = Len(decoder.buffer)]_vars

\* a band was accepted and a later band with other dimensions or another
\* depth was refused
C39_Witness ==
    /\ decoder.state.tag = "RgbParts"
    /\ dec_ret = "UnexpectedParameters"

\* the bands whose flag is set in a decoder state
BandsOf(st) ==
    {band \in Bands : \/ band = "Red" /\ st.has_red
                      \/ band = "Green" /\ st.has_green
                      \/ band = "Blue" /\ st.has_blue}

\* the bands the decoder has accepted so far
AcceptedBands ==
    IF decoder.state.tag = "RgbParts" THEN BandsOf(decoder.state) ELSE {}

\* what C40 says of one write to a decoder that is not done
BandAccepted(frame, fparams) ==
    LET r == write(decoder, frame, fparams)
        after == AcceptedBands \cup {fparams.format}
    IN /\ (r.ret = "Ok" /\ fparams.format \in Bands) =>
             IF after = Bands
               THEN r.dec.state = Done("Rgb", decoder.state.bytes)
               ELSE /\ r.dec.state.tag = "RgbParts"
                    /\ BandsOf(r.dec.state) = after
       /\ (decoder.state.tag = "RgbParts" /\ r.dec.state.tag = "Done") =>
             /\ r.ret = "Ok"
             /\ r.dec.state.format = "Rgb"
             /\ Cardinality(AcceptedBands) = 2
             /\ fparams.format \in Bands \ AcceptedBands
       /\ (fparams.format \in Bands /\ r.dec.state.tag # "Done") =>
             /\ ~into_image(r.dec).ok
             /\ Len(into_image(r.dec).data) = Len(decoder.buffer)

\* C40: in every reachable decoder state RgbParts at least one and at most
\* two of has_red, has_green, has_blue are set and they name exactly the
\* distinct bands accepted so far; Done(Rgb) is entered from RgbParts only
\* by the write that supplies the third distinct band, and until then
\* into_image returns the buffer with its original length.
C40_RgbPartsFlags ==
    /\ decoder.state.tag = "RgbParts" =>
          /\ Cardinality(BandsOf(decoder.state)) \in 1..2
          /\ ~into_image(decoder).ok
    /\ decoder.state.tag # "Done" =>
          \A frame \in DecFrames, fparams \in DecParams :
             BandAccepted(frame, fparams)

\* two bands were accepted and a write of the third one finishes the image
C40_Witness ==
    /\ decoder.state.tag = "RgbParts"
    /\ Cardinality(BandsOf(decoder.state)) = 2
    /\ dec_ret = "Ok"
    /\ \E frame \in DecFrames, fparams \in DecParams :
          write(decoder, frame, fparams).dec.state
            = Done("Rgb", decoder.state.bytes)

====
